---- MODULE Spec2Model ----
(***************************************************************************)
(* The image synchronisation engine of src/src/services/imageSyncService.ts *)
(* (class ImageSyncService) as a state machine.                            *)
(*                                                                         *)
(* The engine runs on a JavaScript event loop: a synchronous stretch of a  *)
(* handler, together with the promise continuations it makes runnable, is  *)
(* one atomic action; an await on I/O (current user, key-value storage,    *)
(* manifest request, file transfer, metadata insert) and a timer           *)
(* (setInterval, setTimeout) end an action, and the completion or the      *)
(* firing is another action.                                               *)
(*                                                                         *)
(* The remote source, the clock and the key-value storage are the          *)
(* environment.  The clock is logical: every reading of it (a capture      *)
(* time given to a published image, new Date() in                          *)
(* updateLastSyncTimestamp) yields a fresh value, so a watermark never     *)
(* equals a capture time and the source's `since` filter has no boundary   *)
(* case.                                                                   *)
(* Storage reads and writes succeed.                                       *)
(*                                                                         *)
(* Specifications:                                                         *)
(*   Spec          the engine under a fixed configuration, with start,     *)
(*                 stop and forceSyncNow called where they take effect;    *)
(*   SpecRestart   Spec with restarts of the process;                      *)
(*   SpecControl   the engine with start and forceSyncNow called in any    *)
(*                 state, the calls recorded in lastCall;                  *)
(*   SpecConfig    the engine with updateConfig, start, stop and           *)
(*                 forceSyncNow called in any state;                       *)
(*   SpecDownload  the engine with the local files and the outcome of      *)
(*                 each download recorded in files and lastDownload;       *)
(*   SpecManifest  the mapping of a manifest response by fetchNewImages;   *)
(*   SpecSingleton the module's instance and getImageSyncService;          *)
(*   SpecCycle     the engine with the way each syncImages invocation      *)
(*                 ends recorded in lastCycle;                             *)
(*   SpecOrder     the engine constructed when the source already holds    *)
(*                 the images (there two images share a capture time,      *)
(*                 older than every watermark);                            *)
(*   SpecReconfig  the engine with updateConfig called while images are    *)
(*                 queued or in flight, the configuration of each cycle's  *)
(*                 start recorded in enqueuedUnder;                        *)
(*   SpecTask      the background task of supportService.ts firing in any  *)
(*                 state, from before the first instance on;               *)
(*   SpecCap       the engine with updateConfig setting the cap while      *)
(*                 downloads are in flight;                                *)
(*   SpecStartStop the engine with start and stop called in any state,     *)
(*                 both recorded in lastCall;                              *)
(*   SpecStopLive, SpecDrainLive  the engine under fairness of downloads,  *)
(*                 of the stop poll and (SpecDrainLive) of retry timers.   *)
(* lastCall, lastDownload and files are written by the actions named after *)
(* the methods (start, stop, forceSyncNow, updateConfig, downloadImage)    *)
(* and keep their initial values in Spec and SpecRestart.                  *)
(***************************************************************************)
EXTENDS Integers, Sequences, FiniteSets

(* ------------------------------ bounds -------------------------------- *)

\* Number of distinct images the remote source may publish.
NumItems == 2
\* Largest value of the logical clock.
MaxClock == 3
\* Largest number of syncImages invocations in progress at once.
MaxCycles == 2
\* Largest length of downloadQueue.
MaxQueue == 3
\* Largest maxConcurrentDownloads the configuration is drawn from.
MaxCap == 2
\* Largest retryAttempts the configuration is drawn from.
MaxRetry == 2
\* Largest number of stop() calls polling in waitForActiveDownloads at once.
MaxStopWaiters == 1
\* Largest number of repeating timers armed at once.
MaxTimers == 2
\* Largest number of records in a manifest response.
MaxManifest == 4

(* ------------------------- program constants -------------------------- *)

\* ConfigSchema: maxConcurrentDownloads: z.number().min(1)
MinConcurrentDownloads == 1
\* ConfigSchema: retryAttempts: z.number().min(1)
MinRetryAttempts == 1
\* ConfigSchema: pollingInterval: z.number().min(1000).default(300000)
MinPollingInterval == 1000
DefaultPollingInterval == 300000
\* ConfigSchema: maxConcurrentDownloads: .max(10).default(3)
MaxConcurrentDownloads == 10
DefaultConcurrentDownloads == 3
\* ConfigSchema: retryAttempts: .default(3)
DefaultRetryAttempts == 3
\* ConfigSchema: retryDelay: z.number().min(1000).default(5000)
MinRetryDelay == 1000
DefaultRetryDelay == 5000
\* ConfigSchema: logLevel: z.enum([...]).default('info')
LogLevels == {"debug", "info", "warn", "error"}
DefaultLogLevel == "info"

Ids == 1..NumItems
Slots == 1..MaxCycles

VARIABLES
    config,            \* this.config: the fields the engine's control flow reads
    isRunning,         \* this.isRunning
    intervalId,        \* this.intervalId # null
    abortController,   \* this.abortController # null
    downloadQueue,     \* this.downloadQueue: sequence of image ids
    activeDownloads,   \* this.activeDownloads
    retryMap,          \* this.retryMap: id -> count, 0 when the id is absent
    timers,            \* number of setInterval timers armed (referenced by intervalId or not)
    stopWaiters,       \* stop() calls waiting in waitForActiveDownloads
    cycles,            \* syncImages invocations in progress, by slot
    inflight,          \* id -> number of downloadImage calls of that id in progress
    pendingRetries,    \* id -> number of retry setTimeout callbacks not yet fired
    lastSync,          \* AsyncStorage[LAST_SYNC_KEY]: the watermark, 0 when absent
    now,               \* the logical clock: the next timestamp to be handed out
    source,            \* the remote source: id -> capture timestamp, 0 when not published
    synced,            \* ids with a row in device_images
    abandoned,         \* ids for which "Max retry attempts reached" was logged (history)
    files,             \* ids whose file downloadImage wrote under storageLocation
    lastCall,          \* the latest call of the public interface recorded, and how it ended
    lastDownload,      \* the latest downloadImage call recorded, and how it ended
    manifest,          \* a response body of the manifest request, as received
    fetchResult,       \* what fetchNewImages made of that body
    instance,          \* the module's `instance`: 0 when null, else the number of
                       \* the ImageSyncService construction that made it
    lastCycle,         \* the latest syncImages invocation recorded to have ended, and how
    enqueuedUnder      \* as recorded: .cycle, slot -> the configuration in effect
                       \* when the syncImages invocation in the slot was made;
                       \* .image, id -> those configurations of the invocations
                       \* that pushed the id

vars == << config, isRunning, intervalId, abortController, downloadQueue,
           activeDownloads, retryMap, timers, stopWaiters, cycles, inflight,
           pendingRetries, lastSync, now, source, synced, abandoned, files,
           lastCall, lastDownload, manifest, fetchResult, instance,
           lastCycle, enqueuedUnder >>

engineVars == << isRunning, intervalId, abortController, timers, stopWaiters >>
queueVars == << downloadQueue, activeDownloads, inflight >>
ledgerVars == << retryMap, pendingRetries, synced, abandoned >>
\* The singleton and the records of cycles.
extraVars == << instance, lastCycle, enqueuedUnder >>
\* The configuration and the records kept of calls: no step of a
\* synchronisation cycle changes them.
staticVars == << config, files, lastCall, lastDownload, manifest, fetchResult,
                extraVars >>

(* -------------------------- configuration ----------------------------- *)

\* Sample strings for sourceEndpoint, and z.string().url() on them.
EndpointUrl == "https://cdn.example.com/manifest"
EndpointNotUrl == "not a url"
IsUrl(s) == s = EndpointUrl

\* An input of ConfigSchema.parse is a record with some of the fields
\* pollingInterval, sourceEndpoint, maxConcurrentDownloads, retryAttempts,
\* retryDelay and logLevel (fileTypes, storageLocation and authToken, which
\* carry no bound, are left out).  A field with a default may be absent.
Has(raw, f) == f \in DOMAIN raw

\* ConfigSchema.parse(raw) succeeds.
SchemaAcceptsNoMinimum(raw) ==
    /\ Has(raw, "sourceEndpoint") /\ IsUrl(raw.sourceEndpoint)
    /\ Has(raw, "maxConcurrentDownloads") =>
           raw.maxConcurrentDownloads <= MaxConcurrentDownloads
    /\ Has(raw, "logLevel") => raw.logLevel \in LogLevels
SchemaAccepts(raw) ==
    /\ Has(raw, "pollingInterval") => raw.pollingInterval >= MinPollingInterval
    /\ Has(raw, "sourceEndpoint") /\ IsUrl(raw.sourceEndpoint)
    /\ Has(raw, "maxConcurrentDownloads") =>
           /\ raw.maxConcurrentDownloads >= MinConcurrentDownloads
           /\ raw.maxConcurrentDownloads <= MaxConcurrentDownloads
    /\ Has(raw, "retryAttempts") => raw.retryAttempts >= MinRetryAttempts
    /\ Has(raw, "retryDelay") => raw.retryDelay >= MinRetryDelay
    /\ Has(raw, "logLevel") => raw.logLevel \in LogLevels

\* The value of ConfigSchema.parse(raw) when it succeeds: the fields given,
\* and the default of each field that is absent.
ConfigSchemaParse(raw) ==
    [pollingInterval |-> IF Has(raw, "pollingInterval")
                         THEN raw.pollingInterval ELSE DefaultPollingInterval,
     sourceEndpoint |-> raw.sourceEndpoint,
     maxConcurrentDownloads |-> IF Has(raw, "maxConcurrentDownloads")
                                THEN raw.maxConcurrentDownloads
                                ELSE DefaultConcurrentDownloads,
     retryAttempts |-> IF Has(raw, "retryAttempts")
                       THEN raw.retryAttempts ELSE DefaultRetryAttempts,
     retryDelay |-> IF Has(raw, "retryDelay")
                    THEN raw.retryDelay ELSE DefaultRetryDelay,
     logLevel |-> IF Has(raw, "logLevel") THEN raw.logLevel ELSE DefaultLogLevel]

\* { ...this.config, ...partial }
Merge(cfg, partial) ==
    [f \in DOMAIN cfg \cup DOMAIN partial |->
        IF f \in DOMAIN partial THEN partial[f] ELSE cfg[f]]

\* The configurations the synchronisation engine is studied under.
EngineConfigs ==
    {ConfigSchemaParse([sourceEndpoint |-> EndpointUrl,
                        maxConcurrentDownloads |-> m,
                        retryAttempts |-> r]) :
        m \in MinConcurrentDownloads..MaxCap, r \in MinRetryAttempts..MaxRetry}

(* ------------------------- records of calls --------------------------- *)

\* lastCall before any recorded call.  n alternates between 0 and 1 from one
\* recorded call to the next, so that a call repeating the previous one
\* still changes lastCall.
NoCall == [op |-> "none", arg |-> << >>, error |-> "none", wasRunning |-> FALSE, n |-> 0]
\* lastDownload before any recorded download.
NoDownload == [id |-> 0, outcome |-> "none", cause |-> "none", existed |-> FALSE,
               conflict |-> FALSE, transferred |-> FALSE, n |-> 0]
\* lastCycle before any recorded end of a syncImages invocation.
NoCycle == [cause |-> "none", outcome |-> "none"]
\* No configuration: an argument left out, an id not pushed yet.
NoConfig == << >>

\* enqueuedUnder before any syncImages invocation is recorded.
NoCapture == [cycle |-> [c \in Slots |-> NoConfig], image |-> [i \in Ids |-> {}]]
\* fetchResult before fetchNewImages has answered.
NoImages == [done |-> FALSE, threw |-> FALSE, images |-> << >>]

(* ----------------------------- helpers -------------------------------- *)

IdleCycle == [pc |-> "idle", kind |-> "none", since |-> 0, sig |-> "none"]

FreeSlots == {c \in Slots : cycles[c].pc = "idle"}

\* The slot a new syncImages invocation takes.
NewSlot == CHOOSE c \in FreeSlots : \A d \in FreeSlots : c <= d

StartsInProgress == Cardinality({c \in Slots : cycles[c].pc # "idle" /\ cycles[c].kind = "start"})

\* Number of occurrences of id i in the sequence q.
CountIn(q, i) == Cardinality({k \in 1..Len(q) : q[k] = i})

\* Occurrences of id i among the download queue and the downloads in flight.
Occ(i) == CountIn(downloadQueue, i) + inflight[i]

\* The remote source's answer to a query with ?since=w (w = 0: no since
\* parameter): the published images newer than w, oldest first.
RECURSIVE ManifestFrom(_, _)
ManifestFrom(i, w) ==
    IF i > NumItems THEN << >>
    ELSE IF source[i] # 0 /\ source[i] > w
         THEN << i >> \o ManifestFrom(i + 1, w)
         ELSE ManifestFrom(i + 1, w)

fetchNewImages(w) == ManifestFrom(1, w)

\* The loop condition of processDownloadQueue.
CanDispatchOffByOne(q, a) == Len(q) > 0 /\ a <= config.maxConcurrentDownloads
CanDispatch(q, a) == Len(q) > 0 /\ a < config.maxConcurrentDownloads

RECURSIVE processDownloadQueueFromEnd(_, _, _)
processDownloadQueueFromEnd(q, a, inf) ==
    IF CanDispatch(q, a)
    THEN processDownloadQueueFromEnd(SubSeq(q, 1, Len(q) - 1), a + 1,
                                     [inf EXCEPT ![q[Len(q)]] = @ + 1])
    ELSE [queue |-> q, active |-> a, inflight |-> inf]
\* processDownloadQueue: shift images off the queue and start their
\* downloads while the loop condition holds.
RECURSIVE processDownloadQueue(_, _, _)
processDownloadQueue(q, a, inf) ==
    IF CanDispatch(q, a)
    THEN processDownloadQueue(Tail(q), a + 1, [inf EXCEPT ![Head(q)] = @ + 1])
    ELSE [queue |-> q, active |-> a, inflight |-> inf]

\* The check of waitForActiveDownloads' checkDownloads.
WaitResolvedNoRetryPending == activeDownloads = 0 /\ \A i \in Ids : pendingRetries[i] = 0
WaitResolvedUnchecked == TRUE
WaitResolved == activeDownloads = 0

(* ------------------------------- Init --------------------------------- *)

\* The fields of a new ImageSyncService other than its configuration, with
\* an empty source, empty storage and an empty device_images table.
InitEngine ==
    /\ isRunning = FALSE
    /\ intervalId = FALSE
    /\ abortController = FALSE
    /\ downloadQueue = << >>
    /\ activeDownloads = 0
    /\ retryMap = [i \in Ids |-> 0]
    /\ timers = 0
    /\ stopWaiters = 0
    /\ cycles = [c \in Slots |-> IdleCycle]
    /\ inflight = [i \in Ids |-> 0]
    /\ pendingRetries = [i \in Ids |-> 0]
    /\ lastSync = 0
    /\ now = 1
    /\ source = [i \in Ids |-> 0]
    /\ synced = {}
    /\ abandoned = {}
    /\ files = {}
    /\ lastCall = NoCall
    /\ lastDownload = NoDownload
    /\ lastCycle = NoCycle
    /\ enqueuedUnder = NoCapture

Init ==
    /\ instance = 1
    /\ config \in EngineConfigs
    /\ manifest = << >>
    /\ fetchResult = NoImages
    /\ InitEngine

(* ------------------------------ actions ------------------------------- *)

\* The remote source publishes image i, captured now.  Images are numbered
\* in capture order.
Publish(i) ==
    /\ source[i] = 0
    /\ IF i = 1 THEN TRUE ELSE source[i - 1] # 0
    /\ now <= MaxClock
    /\ source' = [source EXCEPT ![i] = now]
    /\ now' = now + 1
    /\ UNCHANGED << staticVars, engineVars, queueVars, ledgerVars, cycles, lastSync >>

\* start() on a stopped engine, up to its await of the immediate syncImages().
Start ==
    /\ ~isRunning
    /\ FreeSlots # {}
    /\ timers + StartsInProgress < MaxTimers
    /\ isRunning' = TRUE
    /\ abortController' = TRUE
    /\ cycles' = [cycles EXCEPT ![NewSlot] = [IdleCycle EXCEPT !.pc = "begin", !.kind = "start"]]
    /\ UNCHANGED << staticVars, intervalId, timers, stopWaiters, queueVars, ledgerVars,
                    lastSync, now, source >>

\* What the return of syncImages invocation c lets its caller do: start()
\* goes on to arm the repeating timer (setInterval) and stores its id; the
\* timer callback and forceSyncNow() do nothing more.
TimersAfterReturn(c) == IF cycles[c].kind = "start" THEN timers + 1 ELSE timers
IntervalIdAfterReturn(c) == IF cycles[c].kind = "start" THEN TRUE ELSE intervalId
CyclesAfterReturn(c) == [cycles EXCEPT ![c] = IdleCycle]

\* A tick of a repeating timer: the callback returns at once unless
\* isRunning, and otherwise calls syncImages().
TimerTick ==
    /\ timers > 0
    /\ isRunning
    /\ FreeSlots # {}
    /\ cycles' = [cycles EXCEPT ![NewSlot] = [IdleCycle EXCEPT !.pc = "begin", !.kind = "tick"]]
    /\ UNCHANGED << staticVars, engineVars, queueVars, ledgerVars, lastSync, now, source >>

\* forceSyncNow() on a running engine (it throws on a stopped one).
ForceSyncNow ==
    /\ isRunning
    /\ FreeSlots # {}
    /\ cycles' = [cycles EXCEPT ![NewSlot] = [IdleCycle EXCEPT !.pc = "begin", !.kind = "force"]]
    /\ UNCHANGED << staticVars, engineVars, queueVars, ledgerVars, lastSync, now, source >>

\* syncImages from the answer of getCurrentUser() to the manifest request:
\* without a user it returns; with one it reads the watermark and issues
\* fetch with the signal of the abort controller of that moment, if any.
SyncBegin(c, user) ==
    /\ cycles[c].pc = "begin"
    /\ IF user
       THEN /\ cycles' = [cycles EXCEPT ![c].pc = "fetch",
                                        ![c].since = lastSync,
                                        ![c].sig = IF abortController THEN "live" ELSE "none"]
            /\ UNCHANGED << timers, intervalId >>
       ELSE /\ cycles' = CyclesAfterReturn(c)
            /\ timers' = TimersAfterReturn(c)
            /\ intervalId' = IntervalIdAfterReturn(c)
    /\ UNCHANGED << staticVars, isRunning, abortController, stopWaiters, queueVars,
                    ledgerVars, lastSync, now, source >>

SyncFetchFailedUncaught(c) ==
    /\ cycles[c].pc = "fetch"
    /\ cycles[c].sig # "aborted"
    /\ cycles' = CyclesAfterReturn(c)
    /\ UNCHANGED << staticVars, engineVars, queueVars, ledgerVars, lastSync, now, source >>
\* The manifest request of invocation c fails (transport error, status not
\* ok, body not an array): fetchNewImages and syncImages rethrow.
SyncFetchFailed(c) ==
    /\ cycles[c].pc = "fetch"
    /\ cycles[c].sig # "aborted"
    /\ cycles' = CyclesAfterReturn(c)
    /\ timers' = TimersAfterReturn(c)
    /\ intervalId' = IntervalIdAfterReturn(c)
    /\ UNCHANGED << staticVars, isRunning, abortController, stopWaiters, queueVars,
                    ledgerVars, lastSync, now, source >>

\* The manifest request of invocation c was aborted: fetchNewImages returns
\* [] and syncImages returns on newImages.length === 0.
SyncFetchAborted(c) ==
    /\ cycles[c].pc = "fetch"
    /\ cycles[c].sig = "aborted"
    /\ cycles' = CyclesAfterReturn(c)
    /\ timers' = TimersAfterReturn(c)
    /\ intervalId' = IntervalIdAfterReturn(c)
    /\ UNCHANGED << staticVars, isRunning, abortController, stopWaiters, queueVars,
                    ledgerVars, lastSync, now, source >>

\* The value updateLastSyncTimestamp stores: new Date().toISOString().
WatermarkValue(items) == now

\* The manifest request of invocation c is answered: with no new image
\* syncImages returns; otherwise it pushes the images, runs
\* processDownloadQueue, and stores the watermark.
SyncFetched(c) ==
    /\ cycles[c].pc = "fetch"
    /\ cycles[c].sig # "aborted"
    /\ LET newImages == fetchNewImages(cycles[c].since)
           pushed == downloadQueue \o newImages
           r == processDownloadQueue(pushed, activeDownloads, inflight)
       IN IF newImages = << >>
          THEN UNCHANGED << queueVars, lastSync, now >>
          ELSE /\ Len(pushed) <= MaxQueue
               /\ now <= MaxClock
               /\ downloadQueue' = r.queue
               /\ activeDownloads' = r.active
               /\ inflight' = r.inflight
               /\ lastSync' = WatermarkValue(newImages)
               /\ now' = now + 1
    /\ cycles' = CyclesAfterReturn(c)
    /\ timers' = TimersAfterReturn(c)
    /\ intervalId' = IntervalIdAfterReturn(c)
    /\ UNCHANGED << staticVars, isRunning, abortController, stopWaiters, ledgerVars, source >>

\* The retry decision of processDownloadQueue's catch handler.
ShouldRetry(attempts) == attempts < config.retryAttempts

DownloadSettledNoContinue(i, outcome) ==
    /\ inflight[i] > 0
    /\ IF outcome = "ok" /\ i \notin synced
       THEN /\ retryMap' = [retryMap EXCEPT ![i] = 0]
            /\ synced' = synced \cup {i}
            /\ UNCHANGED << pendingRetries, abandoned >>
       ELSE IF ShouldRetry(retryMap[i])
            THEN /\ retryMap' = [retryMap EXCEPT ![i] = @ + 1]
                 /\ pendingRetries' = [pendingRetries EXCEPT ![i] = @ + 1]
                 /\ UNCHANGED << synced, abandoned >>
            ELSE /\ abandoned' = abandoned \cup {i}
                 /\ UNCHANGED << retryMap, pendingRetries, synced >>
    /\ activeDownloads' = activeDownloads - 1
    /\ inflight' = [inflight EXCEPT ![i] = @ - 1]
    /\ UNCHANGED << staticVars, engineVars, cycles, downloadQueue, lastSync, now, source >>
DownloadSettledFailureAborts(i, outcome) ==
    /\ inflight[i] > 0
    /\ IF outcome = "ok" /\ i \notin synced
       THEN /\ retryMap' = [retryMap EXCEPT ![i] = 0]
            /\ synced' = synced \cup {i}
            /\ UNCHANGED << pendingRetries, abandoned >>
            /\ LET r == processDownloadQueue(downloadQueue, activeDownloads - 1,
                                             [inflight EXCEPT ![i] = @ - 1])
               IN /\ downloadQueue' = r.queue
                  /\ activeDownloads' = r.active
                  /\ inflight' = r.inflight
       ELSE /\ abandoned' = abandoned \cup {i}
            /\ downloadQueue' = << >>
            /\ activeDownloads' = activeDownloads - 1
            /\ inflight' = [inflight EXCEPT ![i] = @ - 1]
            /\ UNCHANGED << retryMap, pendingRetries, synced >>
    /\ UNCHANGED << staticVars, engineVars, cycles, lastSync, now, source >>
\* A download of image i settles.  downloadImage succeeds when the transfer
\* answers 200 and the insert into device_images succeeds, which it does not
\* when a row with the id exists (id is the primary key); it then deletes
\* the ledger entry.  Otherwise the catch handler of processDownloadQueue
\* either counts the failure and sets a retry timer, or logs that the
\* retries are used up.  The finally handler then decrements
\* activeDownloads and runs processDownloadQueue.
DownloadSettled(i, outcome) ==
    /\ inflight[i] > 0
    /\ IF outcome = "ok" /\ i \notin synced
       THEN /\ retryMap' = [retryMap EXCEPT ![i] = 0]
            /\ synced' = synced \cup {i}
            /\ UNCHANGED << pendingRetries, abandoned >>
       ELSE IF ShouldRetry(retryMap[i])
            THEN /\ retryMap' = [retryMap EXCEPT ![i] = @ + 1]
                 /\ pendingRetries' = [pendingRetries EXCEPT ![i] = @ + 1]
                 /\ UNCHANGED << synced, abandoned >>
            ELSE /\ abandoned' = abandoned \cup {i}
                 /\ UNCHANGED << retryMap, pendingRetries, synced >>
    /\ LET r == processDownloadQueue(downloadQueue, activeDownloads - 1,
                                     [inflight EXCEPT ![i] = @ - 1])
       IN /\ downloadQueue' = r.queue
          /\ activeDownloads' = r.active
          /\ inflight' = r.inflight
    /\ UNCHANGED << staticVars, engineVars, cycles, lastSync, now, source >>

\* A retry timer of image i fires: the image is pushed back and
\* processDownloadQueue runs.
RetryFire(i) ==
    /\ pendingRetries[i] > 0
    /\ Len(downloadQueue) < MaxQueue
    /\ pendingRetries' = [pendingRetries EXCEPT ![i] = @ - 1]
    /\ LET r == processDownloadQueue(Append(downloadQueue, i), activeDownloads, inflight)
       IN /\ downloadQueue' = r.queue
          /\ activeDownloads' = r.active
          /\ inflight' = r.inflight
    /\ UNCHANGED << staticVars, engineVars, cycles, retryMap, synced, abandoned,
                    lastSync, now, source >>

\* stop() on a running engine: clears the timer intervalId refers to, aborts
\* and drops the abort controller, and enters waitForActiveDownloads, whose
\* first check is made at once; when it resolves, isRunning becomes false.
Stop ==
    /\ isRunning
    /\ timers' = IF intervalId THEN timers - 1 ELSE timers
    /\ intervalId' = FALSE
    /\ abortController' = FALSE
    /\ cycles' = [c \in Slots |->
                    IF abortController /\ cycles[c].sig = "live"
                    THEN [cycles[c] EXCEPT !.sig = "aborted"]
                    ELSE cycles[c]]
    /\ IF WaitResolved
       THEN /\ isRunning' = FALSE
            /\ UNCHANGED stopWaiters
       ELSE /\ stopWaiters < MaxStopWaiters
            /\ stopWaiters' = stopWaiters + 1
            /\ UNCHANGED isRunning
    /\ UNCHANGED << staticVars, queueVars, ledgerVars, lastSync, now, source >>

\* A 500 ms poll of waitForActiveDownloads finds the check satisfied: the
\* promise resolves and stop() sets isRunning to false.
StopPoll ==
    /\ stopWaiters > 0
    /\ WaitResolved
    /\ stopWaiters' = stopWaiters - 1
    /\ isRunning' = FALSE
    /\ UNCHANGED << staticVars, intervalId, abortController, timers, cycles, queueVars,
                    ledgerVars, lastSync, now, source >>

Outcomes == {"ok", "transferFailed", "insertFailed"}

Next ==
    \/ \E i \in Ids : Publish(i)
    \/ Start
    \/ TimerTick
    \/ ForceSyncNow
    \/ \E c \in Slots, user \in BOOLEAN : SyncBegin(c, user)
    \/ \E c \in Slots : SyncFetchFailed(c)
    \/ \E c \in Slots : SyncFetchAborted(c)
    \/ \E c \in Slots : SyncFetched(c)
    \/ \E i \in Ids, outcome \in Outcomes : DownloadSettled(i, outcome)
    \/ \E i \in Ids : RetryFire(i)
    \/ Stop
    \/ StopPoll

Spec == Init /\ [][Next]_vars

\* The fields of a newly constructed ImageSyncService hold nothing.
NothingInMemory ==
    /\ ~isRunning /\ ~intervalId /\ ~abortController
    /\ timers = 0 /\ stopWaiters = 0
    /\ downloadQueue = << >> /\ activeDownloads = 0
    /\ \A i \in Ids : retryMap[i] = 0 /\ inflight[i] = 0 /\ pendingRetries[i] = 0
    /\ \A c \in Slots : cycles[c] = IdleCycle

\* The process is killed and started again: getImageSyncService(config)
\* constructs a new engine with the same configuration.  Timers, requests
\* and downloads of the old process are gone; the stored watermark, the
\* remote source and the rows of device_images remain.
Restart ==
    /\ ~NothingInMemory
    /\ isRunning' = FALSE
    /\ intervalId' = FALSE
    /\ abortController' = FALSE
    /\ timers' = 0
    /\ stopWaiters' = 0
    /\ downloadQueue' = << >>
    /\ activeDownloads' = 0
    /\ retryMap' = [i \in Ids |-> 0]
    /\ inflight' = [i \in Ids |-> 0]
    /\ pendingRetries' = [i \in Ids |-> 0]
    /\ cycles' = [c \in Slots |-> IdleCycle]
    /\ UNCHANGED << staticVars, lastSync, now, source, synced, abandoned >>

NextRestart ==
    \/ Next
    \/ Restart

\* The engine in a process that may be killed and restarted at any point.
SpecRestart == Init /\ [][NextRestart]_vars

(* ------------------------------ claims -------------------------------- *)

\* Consistency of the model's bookkeeping: activeDownloads is the number of
\* downloadImage calls in progress.
RECURSIVE InflightUpTo(_)
InflightUpTo(n) == IF n = 0 THEN 0 ELSE inflight[n] + InflightUpTo(n - 1)
ActiveCountsInflight == activeDownloads = InflightUpTo(NumItems)

\* C1: for every maxConcurrentDownloads of the configuration, and at whatever
\* point stop() was called, the step in which the engine goes from Running
\* to Stopped is taken only with activeDownloads = 0, before and after it.
C1_StopOnlyWhenNoActiveDownloads ==
    [][(isRunning /\ ~isRunning') => (activeDownloads = 0 /\ activeDownloads' = 0)]_vars

\* C1 witness: stop() was called mid-cycle and is waiting while as many
\* downloads as the configuration allows are in flight.
C1_Witness ==
    /\ isRunning
    /\ stopWaiters > 0
    /\ activeDownloads = config.maxConcurrentDownloads
    /\ config.maxConcurrentDownloads = MaxCap

\* C2: under a fixed configuration activeDownloads never exceeds
\* maxConcurrentDownloads, in any interleaving of cycles, download
\* completions and retry callbacks.
C2_ConcurrencyCap == activeDownloads <= config.maxConcurrentDownloads

\* C2 witness: with maxConcurrentDownloads = 1, one download is in flight
\* while further images wait in the queue.
C2_Witness ==
    /\ config.maxConcurrentDownloads = 1
    /\ activeDownloads = 1
    /\ Len(downloadQueue) >= 1

\* C3: the step of a cycle that writes the watermark leaves none of the
\* images of that cycle's manifest in the download queue or in flight.
C3_WatermarkOnlyAfterDrain ==
    [][\A c \in Slots :
          (cycles[c].pc = "fetch" /\ cycles'[c].pc = "idle" /\ lastSync' # lastSync)
          => \A i \in Ids : (source[i] # 0 /\ source[i] > cycles[c].since) => Occ(i)' = 0]_vars

\* C4: no image is silently skipped.  In a newly started process (nothing
\* queued, in flight, awaiting a retry or being fetched), the stored
\* watermark is not later than the timestamp of any published image that is
\* neither synced nor abandoned, so that the next fetch from the watermark
\* returns the image.
C4_NoItemSkipped ==
    NothingInMemory =>
        \A i \in Ids :
            (source[i] # 0 /\ i \notin synced /\ i \notin abandoned) => lastSync <= source[i]

\* C5: the watermark a cycle stores is the largest timestamp among the
\* images of its manifest.
C5_WatermarkIsMaxItemTimestamp ==
    [][\A c \in Slots :
          (cycles[c].pc = "fetch" /\ cycles'[c].pc = "idle" /\ lastSync' # lastSync)
          => LET m == fetchNewImages(cycles[c].since)
             IN \E k \in 1..Len(m) :
                   /\ lastSync' = source[m[k]]
                   /\ \A j \in 1..Len(m) : source[m[j]] <= source[m[k]]]_vars

\* C6: a download attempt of an image is in progress only while fewer than
\* retryAttempts failures of it are recorded, so that an image is attempted
\* at most retryAttempts times.
C6_AttemptsWithinRetryAttempts ==
    \A i \in Ids : inflight[i] > 0 => retryMap[i] < config.retryAttempts

\* C7: the step that abandons an image leaves no entry for it in the retry ledger.
C7_AbandonedNotInLedger ==
    [][\A i \in Ids : (i \notin abandoned /\ i \in abandoned') => retryMap'[i] = 0]_vars

\* C8: no step pushes onto the download queue an image whose ledger count is
\* retryAttempts or more.
C8_ExhaustedNeverEnqueued ==
    [][\A i \in Ids : Occ(i)' > Occ(i) => retryMap[i] < config.retryAttempts]_vars

\* C9: the enqueue of a cycle's manifest never pushes an image that has
\* been abandoned.
C9_AbandonedNeverReenqueuedByCycle ==
    [][\A i \in Ids :
          (i \in abandoned /\ \E c \in Slots : cycles[c].pc = "fetch" /\ cycles'[c].pc = "idle")
          => Occ(i)' <= Occ(i)]_vars

\* C10: no image id occurs twice among the download queue and the downloads in flight.
C10_NoDuplicateOccurrence == \A i \in Ids : Occ(i) <= 1

(* ------------------- manifest records (fetchNewImages) ---------------- *)

\* A field the JSON record does not have reads as undefined.
Undefined == "undefined"

\* Sample values of the fields of a manifest record.
ItemUrl == "https://cdn.example.com/a.PNG"
ItemFileName == "a.png"
RawItems == [id : {"a", Undefined},
             url : {ItemUrl, Undefined},
             timestamp : {"2025-03-03T00:00:00Z", Undefined},
             fileName : {ItemFileName, Undefined}]

\* The response bodies considered: arrays of at most MaxManifest records.
Manifests == UNION {[1..n -> RawItems] : n \in 0..MaxManifest}

\* getFileExtension(url) on the sample url; url.match(...) on undefined is
\* a TypeError.
getFileExtension(url) == IF url = ItemUrl THEN "png" ELSE "jpg"

\* The callback of data.map throws on this record: fileName is falsy, so
\* the template string is evaluated, and getFileExtension reads
\* item.url.match of an undefined url.
MapThrows(item) == item.fileName = Undefined /\ item.url = Undefined

\* The callback of data.map on a record it does not throw on.
MapItem(item) ==
    [id |-> item.id,
     url |-> item.url,
     timestamp |-> item.timestamp,
     fileName |-> IF item.fileName # Undefined
                  THEN item.fileName
                  ELSE << "image_", item.id, ".", getFileExtension(item.url) >>]

\* fetchNewImages on a response body that is an array: the records mapped
\* one by one, none left out; a TypeError of the callback is caught, logged
\* and thrown again.
fetchNewImagesOf(data) ==
    IF \E k \in 1..Len(data) : MapThrows(data[k])
    THEN [done |-> TRUE, threw |-> TRUE, images |-> << >>]
    ELSE [done |-> TRUE, threw |-> FALSE,
          images |-> [k \in 1..Len(data) |-> MapItem(data[k])]]

InitManifest ==
    /\ instance = 1
    /\ config = ConfigSchemaParse([sourceEndpoint |-> EndpointUrl])
    /\ manifest \in Manifests
    /\ fetchResult = NoImages
    /\ InitEngine

\* The manifest request of a cycle is answered with the body `manifest`;
\* syncImages pushes fetchResult.images onto the download queue unless
\* fetchNewImages threw.
ManifestAnswered ==
    /\ ~fetchResult.done
    /\ fetchResult' = fetchNewImagesOf(manifest)
    /\ UNCHANGED << config, files, lastCall, lastDownload, manifest, extraVars, engineVars,
                    queueVars, ledgerVars, cycles, lastSync, now, source >>

NextManifest == ManifestAnswered

SpecManifest == InitManifest /\ [][NextManifest]_vars

\* A record with id, url and timestamp.
WellFormed(item) ==
    item.id # Undefined /\ item.url # Undefined /\ item.timestamp # Undefined

\* C11: once the manifest request is answered, the records enqueued are the
\* well-formed records of the response: none of them misses id, url or
\* timestamp, and there are as many as the response has well-formed records.
C11_MalformedRecordsDropped ==
    fetchResult.done =>
        /\ ~fetchResult.threw
        /\ Len(fetchResult.images) = Len(SelectSeq(manifest, WellFormed))
        /\ \A k \in 1..Len(fetchResult.images) : WellFormed(fetchResult.images[k])

(* ------------------ calls of the public interface --------------------- *)

\* The record of a call op(arg) of a public method made now, ending with error
\* message err ("none": it returned or its promise is pending).
Called(op, arg, err) ==
    [op |-> op, arg |-> arg, error |-> err, wasRunning |-> isRunning,
     n |-> 1 - lastCall.n]

NotRunningError == "Service is not running"

\* A new syncImages invocation of the given kind in the first free slot.
CyclesWithNew(kind) ==
    [cycles EXCEPT ![NewSlot] = [IdleCycle EXCEPT !.pc = "begin", !.kind = kind]]

\* forceSyncNow(), up to its await of syncImages(): on a stopped engine it
\* throws before doing anything.
forceSyncNowUnchecked ==
    /\ FreeSlots # {}
    /\ lastCall' = Called("forceSyncNow", << >>, "none")
    /\ cycles' = CyclesWithNew("force")
    /\ UNCHANGED << config, files, lastDownload, manifest, fetchResult, extraVars, engineVars,
                    queueVars, ledgerVars, lastSync, now, source >>
forceSyncNow ==
    /\ IF ~isRunning
       THEN /\ lastCall' = Called("forceSyncNow", << >>, NotRunningError)
            /\ UNCHANGED cycles
       ELSE /\ FreeSlots # {}
            /\ lastCall' = Called("forceSyncNow", << >>, "none")
            /\ cycles' = CyclesWithNew("force")
    /\ UNCHANGED << config, files, lastDownload, manifest, fetchResult, extraVars, engineVars,
                    queueVars, ledgerVars, lastSync, now, source >>

\* start(), up to its await of the immediate syncImages(): on a running
\* engine it logs 'Image sync service is already running' and returns.
startUnchecked ==
    /\ FreeSlots # {}
    /\ timers + StartsInProgress < MaxTimers
    /\ lastCall' = Called("start", << >>, "none")
    /\ isRunning' = TRUE
    /\ abortController' = TRUE
    /\ cycles' = CyclesWithNew("start")
    /\ UNCHANGED << config, files, lastDownload, manifest, fetchResult, extraVars, intervalId,
                    timers, stopWaiters, queueVars, ledgerVars, lastSync, now, source >>
start ==
    /\ lastCall' = Called("start", << >>, "none")
    /\ IF isRunning
       THEN UNCHANGED << isRunning, abortController, cycles >>
       ELSE /\ FreeSlots # {}
            /\ timers + StartsInProgress < MaxTimers
            /\ isRunning' = TRUE
            /\ abortController' = TRUE
            /\ cycles' = CyclesWithNew("start")
    /\ UNCHANGED << config, files, lastDownload, manifest, fetchResult, extraVars, intervalId,
                    timers, stopWaiters, queueVars, ledgerVars, lastSync, now, source >>

\* stop() with the promise continuations it leaves behind: on a stopped
\* engine it logs and returns.
stop ==
    /\ lastCall' = Called("stop", << >>, "none")
    /\ IF ~isRunning
       THEN UNCHANGED << engineVars, cycles >>
       ELSE /\ timers' = IF intervalId THEN timers - 1 ELSE timers
            /\ intervalId' = FALSE
            /\ abortController' = FALSE
            /\ cycles' = [c \in Slots |->
                            IF abortController /\ cycles[c].sig = "live"
                            THEN [cycles[c] EXCEPT !.sig = "aborted"]
                            ELSE cycles[c]]
            /\ IF WaitResolved
               THEN /\ isRunning' = FALSE
                    /\ UNCHANGED stopWaiters
               ELSE /\ stopWaiters < MaxStopWaiters
                    /\ stopWaiters' = stopWaiters + 1
                    /\ UNCHANGED isRunning
    /\ UNCHANGED << config, files, lastDownload, manifest, fetchResult, extraVars, queueVars,
                    ledgerVars, lastSync, now, source >>

\* The engine with its public methods called in any state and any order,
\* and a source that publishes one image.
NextControl ==
    \/ Publish(1)
    \/ start
    \/ forceSyncNow
    \/ TimerTick
    \/ \E c \in Slots, user \in BOOLEAN : SyncBegin(c, user)
    \/ \E c \in Slots : SyncFetchFailed(c)
    \/ \E c \in Slots : SyncFetchAborted(c)
    \/ \E c \in Slots : SyncFetched(c)
    \/ \E i \in Ids, outcome \in Outcomes : DownloadSettled(i, outcome)
    \/ \E i \in Ids : RetryFire(i)
    \/ Stop
    \/ StopPoll

SpecControl == Init /\ [][NextControl]_vars

\* C12: a forceSyncNow() call made while the engine is stopped ends with the
\* not-running error and changes neither the queue, activeDownloads, the
\* retry ledger nor the watermark; it begins no syncImages invocation (so no
\* manifest request) and no download.
C12_ForceSyncNowStoppedRejected ==
    [][(lastCall' # lastCall /\ lastCall'.op = "forceSyncNow" /\ ~isRunning)
       => /\ lastCall'.error = NotRunningError
          /\ UNCHANGED << downloadQueue, activeDownloads, retryMap, pendingRetries,
                          lastSync, cycles, inflight >>]_vars

\* forceSyncNow() was refused on a stopped engine that has a watermark and a
\* ledger entry.
C12_Witness ==
    /\ ~isRunning
    /\ lastCall.op = "forceSyncNow" /\ lastCall.error = NotRunningError
    /\ lastSync > 0
    /\ retryMap[1] > 0

\* C17: a start() call made while the engine is running returns without an
\* error and changes nothing: no syncImages invocation begins, no timer is
\* armed, and the timer id and the abort controller stay the ones they were.
C17_StartWhileRunningNoOp ==
    [][(lastCall' # lastCall /\ lastCall'.op = "start" /\ isRunning)
       => /\ lastCall'.error = "none"
          /\ UNCHANGED << isRunning, cycles, timers, intervalId, abortController,
                          stopWaiters, queueVars, ledgerVars, lastSync >>]_vars

\* start() was called on a running engine whose timer is armed, while a
\* cycle of that timer awaits its manifest.
C17_Witness ==
    /\ lastCall.op = "start" /\ lastCall.wasRunning
    /\ isRunning /\ intervalId /\ timers = 1
    /\ \E c \in Slots : cycles[c].kind = "tick" /\ cycles[c].pc = "fetch"

(* --------------------------- updateConfig ----------------------------- *)

InvalidConfigurationError == "Invalid configuration"

\* The arguments updateConfig is called with: one field at, below or above
\* each bound of ConfigSchema, and one with a valid and an invalid field.
Partials ==
    {[pollingInterval |-> MinPollingInterval - 1],
     [pollingInterval |-> MinPollingInterval],
     [maxConcurrentDownloads |-> MinConcurrentDownloads - 1],
     [maxConcurrentDownloads |-> MinConcurrentDownloads],
     [maxConcurrentDownloads |-> MaxConcurrentDownloads + 1],
     [retryAttempts |-> MinRetryAttempts - 1],
     [retryDelay |-> MinRetryDelay - 1],
     [sourceEndpoint |-> EndpointNotUrl],
     [logLevel |-> "verbose"],
     [logLevel |-> "debug"],
     [logLevel |-> "debug", retryDelay |-> MinRetryDelay - 1]}

\* The arguments the constructor is called with: a partial alone (it lacks
\* sourceEndpoint) or with a sourceEndpoint.
ConstructorInputs ==
    Partials \cup {Merge([sourceEndpoint |-> EndpointUrl], p) : p \in Partials}

\* The constructor throws unless ConfigSchema.parse succeeds, so an engine
\* exists only with a parsed configuration.
InitConfig ==
    /\ instance = 1
    /\ config \in {ConfigSchemaParse(raw) : raw \in {r \in ConstructorInputs : SchemaAccepts(r)}}
    /\ manifest = << >>
    /\ fetchResult = NoImages
    /\ InitEngine

\* getConfig()
getConfig == config

updateConfigAssignsUnparsed(partial) ==
    LET merged == Merge(config, partial)
    IN /\ config' = merged
       /\ lastCall' = Called("updateConfig", partial,
                             IF SchemaAccepts(merged) THEN "none"
                             ELSE InvalidConfigurationError)
       /\ UNCHANGED << files, lastDownload, manifest, fetchResult, extraVars, engineVars, cycles,
                       queueVars, ledgerVars, lastSync, now, source >>

\* updateConfig(partial) with the promise continuations it leaves behind.
\* On a running engine it calls stop() without awaiting it, before the
\* merged configuration is parsed: stop() clears the timer, aborts the
\* controller and waits for the active downloads.  A parse failure is
\* thrown as 'Invalid configuration' with this.config unassigned.  After a
\* successful parse, start() is called while isRunning is still true, logs
\* 'already running' and returns; the continuation of stop() then sets
\* isRunning to false (at once when there is no active download, from a
\* poll of waitForActiveDownloads otherwise).
updateConfig(partial) ==
    LET merged == Merge(config, partial)
    IN /\ IF SchemaAccepts(merged)
          THEN /\ config' = ConfigSchemaParse(merged)
               /\ lastCall' = Called("updateConfig", partial, "none")
          ELSE /\ config' = config
               /\ lastCall' = Called("updateConfig", partial, InvalidConfigurationError)
       /\ IF isRunning
          THEN /\ timers' = IF intervalId THEN timers - 1 ELSE timers
               /\ intervalId' = FALSE
               /\ abortController' = FALSE
               /\ cycles' = [c \in Slots |->
                               IF abortController /\ cycles[c].sig = "live"
                               THEN [cycles[c] EXCEPT !.sig = "aborted"]
                               ELSE cycles[c]]
               /\ IF WaitResolved
                  THEN /\ isRunning' = FALSE
                       /\ UNCHANGED stopWaiters
                  ELSE /\ stopWaiters < MaxStopWaiters
                       /\ stopWaiters' = stopWaiters + 1
                       /\ UNCHANGED isRunning
          ELSE UNCHANGED << engineVars, cycles >>
       /\ UNCHANGED << files, lastDownload, manifest, fetchResult, extraVars, queueVars,
                       ledgerVars, lastSync, now, source >>

\* The engine with its configuration updated in any state, and a source
\* that publishes nothing: every manifest is empty and nothing is downloaded.
NextConfig ==
    \/ \E partial \in Partials : updateConfig(partial)
    \/ start
    \/ stop
    \/ forceSyncNow
    \/ TimerTick
    \/ \E c \in Slots, user \in BOOLEAN : SyncBegin(c, user)
    \/ \E c \in Slots : SyncFetchFailed(c)
    \/ \E c \in Slots : SyncFetchAborted(c)
    \/ \E c \in Slots : SyncFetched(c)

SpecConfig == InitConfig /\ [][NextConfig]_vars

\* C13: an updateConfig call whose merged configuration violates a bound
\* (pollingInterval < 1000, maxConcurrentDownloads outside 1..10,
\* retryAttempts < 1, retryDelay < 1000, a sourceEndpoint that is no URL, an
\* unknown logLevel) ends with the validation error, and getConfig()
\* returns after it what it returned before it.
C13_InvalidUpdateRejected ==
    [][(lastCall' # lastCall /\ lastCall'.op = "updateConfig"
        /\ LET m == Merge(config, lastCall'.arg)
           IN \/ m.pollingInterval < 1000
              \/ m.maxConcurrentDownloads < 1 \/ m.maxConcurrentDownloads > 10
              \/ m.retryAttempts < 1
              \/ m.retryDelay < 1000
              \/ ~IsUrl(m.sourceEndpoint)
              \/ m.logLevel \notin {"debug", "info", "warn", "error"})
       => /\ lastCall'.error = InvalidConfigurationError
          /\ getConfig' = getConfig]_vars

\* An update with a valid logLevel and a retryDelay below its bound was
\* rejected after an earlier update had been accepted, and the logLevel in
\* effect is not the one of the rejected update.
C13_Witness ==
    /\ lastCall.op = "updateConfig"
    /\ lastCall.arg = [logLevel |-> "debug", retryDelay |-> MinRetryDelay - 1]
    /\ lastCall.error = InvalidConfigurationError
    /\ getConfig.pollingInterval = MinPollingInterval
    /\ getConfig.logLevel = DefaultLogLevel

\* C14: the configuration in effect satisfies every bound, from the
\* construction on and after any updateConfig calls.
C14_ConfigWithinBounds ==
    /\ config.pollingInterval >= 1000
    /\ config.maxConcurrentDownloads >= 1 /\ config.maxConcurrentDownloads <= 10
    /\ config.retryAttempts >= 1
    /\ config.retryDelay >= 1000
    /\ config.logLevel \in {"debug", "info", "warn", "error"}

\* The latest update was rejected and an earlier one was accepted: the
\* configuration differs from the constructed one in a field at its bound.
C14_Witness ==
    /\ lastCall.op = "updateConfig" /\ lastCall.error = InvalidConfigurationError
    /\ config.maxConcurrentDownloads = MinConcurrentDownloads
    /\ config.pollingInterval = MinPollingInterval
    /\ config.logLevel = "debug"

\* C15: an updateConfig call that fails validation on a running engine
\* leaves the engine running, its timer armed and the manifest requests in
\* flight unaborted.
C15_RejectedUpdateChangesNothing ==
    [][(lastCall' # lastCall /\ lastCall'.op = "updateConfig"
        /\ lastCall'.error = InvalidConfigurationError /\ isRunning)
       => /\ isRunning'
          /\ UNCHANGED << intervalId, timers, abortController, cycles >>]_vars

\* C16: when the latest call was an accepted updateConfig and its effects
\* have settled (no stop() is waiting, no start() awaits its initial cycle),
\* the engine is running with one timer armed if it was running at the
\* call, and stopped if it was stopped.
C16_RestartedAfterUpdate ==
    (/\ lastCall.op = "updateConfig" /\ lastCall.error = "none"
     /\ stopWaiters = 0 /\ StartsInProgress = 0)
    => IF lastCall.wasRunning
       THEN isRunning /\ intervalId /\ timers = 1
       ELSE ~isRunning

(* ------------------------------- start -------------------------------- *)

\* Invocation c of syncImages, made by start(), returns in this step.
InitialCycleReturns(c) ==
    cycles[c].kind = "start" /\ cycles[c].pc # "idle" /\ cycles'[c].pc = "idle"

\* C18: the step in which a stopped engine becomes running begins exactly
\* one syncImages invocation, that of start(), and arms no timer; a timer is
\* armed only in a step in which an invocation made by start() returns, one
\* timer per return; and every such return, failures of the manifest request
\* included, arms the timer and leaves isRunning as it is.
C18_TimerArmedAfterInitialCycle ==
    [][/\ (~isRunning /\ isRunning')
          => /\ timers' = timers /\ intervalId' = intervalId
             /\ \E c \in Slots :
                   /\ cycles[c].pc = "idle"
                   /\ cycles'[c].pc = "begin" /\ cycles'[c].kind = "start"
                   /\ \A d \in Slots \ {c} : cycles'[d] = cycles[d]
       /\ timers' > timers
          => /\ timers' = timers + 1
             /\ intervalId'
             /\ \E c \in Slots : InitialCycleReturns(c)
       /\ \A c \in Slots :
             InitialCycleReturns(c)
             => timers' = timers + 1 /\ intervalId' /\ isRunning' = isRunning]_vars

\* start() has returned on an engine that is running with its timer armed,
\* and its initial cycle stored no watermark although an image is published.
C18_Witness ==
    /\ isRunning /\ intervalId /\ timers = 1
    /\ \A c \in Slots : cycles[c] = IdleCycle
    /\ source[1] # 0 /\ lastSync = 0

(* --------------------------- downloadImage ---------------------------- *)

\* storeImageMetadata throws: `if (error) throw error` on the error the
\* insert returns, a conflict on the id or any other.
InsertThrowsNever(conflict, insertOk) == FALSE
InsertThrows(conflict, insertOk) == conflict \/ ~insertOk

\* this.retryMap.delete(image.id)
RetryMapKept(i) == retryMap
RetryMapDeleted(i) == [retryMap EXCEPT ![i] = 0]

\* A downloadImage(image) call of id i settles, and the catch and finally
\* callbacks of processDownloadQueue run.  downloadImage creates the
\* directory and calls FileSystem.downloadAsync(url, filePath) whatever
\* filePath holds; with status 200 the file is written and
\* storeImageMetadata inserts the row, and the error of the insert, a
\* primary-key conflict included, is thrown.  transferOk: the transfer ended
\* with status 200; insertOk: the insert meets no error other than a
\* conflict on the id.
downloadImage(i, transferOk, insertOk) ==
    LET conflict == transferOk /\ i \in synced
        success == transferOk /\ ~InsertThrows(conflict, insertOk)
    IN /\ inflight[i] > 0
       /\ files' = IF transferOk THEN files \cup {i} ELSE files
       /\ lastDownload' = [id |-> i,
                           outcome |-> IF success THEN "Success" ELSE "Failure",
                           cause |-> IF ~transferOk THEN "transfer"
                                     ELSE IF conflict THEN "conflict"
                                     ELSE IF ~insertOk THEN "insert"
                                     ELSE "none",
                           existed |-> i \in files,
                           conflict |-> conflict,
                           transferred |-> TRUE,
                           n |-> 1 - lastDownload.n]
       /\ IF success
          THEN /\ retryMap' = RetryMapDeleted(i)
               /\ synced' = synced \cup {i}
               /\ UNCHANGED << pendingRetries, abandoned >>
          ELSE IF ShouldRetry(retryMap[i])
               THEN /\ retryMap' = [retryMap EXCEPT ![i] = @ + 1]
                    /\ pendingRetries' = [pendingRetries EXCEPT ![i] = @ + 1]
                    /\ UNCHANGED << synced, abandoned >>
               ELSE /\ abandoned' = abandoned \cup {i}
                    /\ UNCHANGED << retryMap, pendingRetries, synced >>
       /\ LET r == processDownloadQueue(downloadQueue, activeDownloads - 1,
                                        [inflight EXCEPT ![i] = @ - 1])
          IN /\ downloadQueue' = r.queue
             /\ activeDownloads' = r.active
             /\ inflight' = r.inflight
       /\ UNCHANGED << config, lastCall, manifest, fetchResult, extraVars, engineVars, cycles,
                       lastSync, now, source >>

\* The engine with the local files and the outcome of each download
\* recorded, and a source that publishes one image.
NextDownload ==
    \/ Publish(1)
    \/ Start
    \/ TimerTick
    \/ ForceSyncNow
    \/ \E c \in Slots, user \in BOOLEAN : SyncBegin(c, user)
    \/ \E c \in Slots : SyncFetchFailed(c)
    \/ \E c \in Slots : SyncFetchAborted(c)
    \/ \E c \in Slots : SyncFetched(c)
    \/ \E i \in Ids, transferOk \in BOOLEAN, insertOk \in BOOLEAN :
          downloadImage(i, transferOk, insertOk)
    \/ \E i \in Ids : RetryFire(i)
    \/ Stop
    \/ StopPoll

SpecDownload == Init /\ [][NextDownload]_vars

\* C19: a download of an item whose file is already at its local path makes
\* no transfer and ends in Success.
C19_ExistingFileNotTransferred ==
    [][(lastDownload' # lastDownload /\ lastDownload'.existed)
       => ~lastDownload'.transferred /\ lastDownload'.outcome = "Success"]_vars

\* C20: a download whose metadata insert conflicts on the id ends in
\* Success: the ledger has no entry for the id afterwards and no retry is
\* scheduled.
C20_ConflictIsSuccess ==
    [][(lastDownload' # lastDownload /\ lastDownload'.conflict)
       => /\ lastDownload'.outcome = "Success"
          /\ retryMap'[lastDownload'.id] = 0
          /\ pendingRetries'[lastDownload'.id] = pendingRetries[lastDownload'.id]]_vars

\* C21: a download whose transfer succeeds and whose metadata insert fails
\* for a reason other than a conflict ends in Failure and is treated as a
\* failed transfer is: while the ledger count is below retryAttempts it is
\* incremented and one retry is scheduled; the ledger entry is not cleared
\* and no row is recorded.
C21_InsertFailureIsFailure ==
    [][(lastDownload' # lastDownload /\ lastDownload'.cause = "insert")
       => LET i == lastDownload'.id
          IN /\ lastDownload'.outcome = "Failure"
             /\ synced' = synced
             /\ retryMap'[i] > 0 /\ retryMap'[i] >= retryMap[i]
             /\ retryMap[i] < config.retryAttempts
                => /\ retryMap'[i] = retryMap[i] + 1
                   /\ pendingRetries'[i] = pendingRetries[i] + 1]_vars

\* The insert of a transferred item failed after an earlier failure of the
\* same item, and its retry is scheduled.
C21_Witness ==
    /\ lastDownload.cause = "insert" /\ lastDownload.outcome = "Failure"
    /\ retryMap[lastDownload.id] = MaxRetry
    /\ pendingRetries[lastDownload.id] > 0
    /\ lastDownload.id \in files

\* C29: after a download that ended in Success the ledger has no entry for
\* the id.
C29_LedgerClearedOnSuccess ==
    [][(lastDownload' # lastDownload /\ lastDownload'.outcome = "Success")
       => retryMap'[lastDownload'.id] = 0]_vars

\* A download ended in Success on its second attempt at least: the file of
\* an earlier attempt was at the local path.
C29_Witness ==
    /\ lastDownload.outcome = "Success" /\ lastDownload.existed
    /\ retryMap[lastDownload.id] = 0
    /\ lastDownload.id \in synced

(* ----------------------- getImageSyncService -------------------------- *)

NotInitializedError == "ImageSyncService not initialized. Provide config on first call."

\* The arguments getImageSyncService is called with: none, two
\* configurations the constructor accepts and one it rejects.
SingletonArgs ==
    {NoConfig,
     [sourceEndpoint |-> EndpointUrl],
     [sourceEndpoint |-> EndpointUrl, maxConcurrentDownloads |-> MinConcurrentDownloads],
     [sourceEndpoint |-> EndpointNotUrl]}

\* getImageSyncService(arg): without an instance it constructs one from the
\* argument (the constructor throws on a configuration the schema rejects
\* and `instance` stays null) or throws when there is no argument; with an
\* instance it returns it and does not look at the argument.
\* resetImageSyncService ("for testing") is never called.
getImageSyncServiceAlwaysNew(arg) ==
    /\ UNCHANGED << files, lastDownload, manifest, fetchResult, lastCycle,
                    enqueuedUnder, lastSync, now, source, synced, abandoned >>
    /\ IF arg # NoConfig
       THEN IF SchemaAccepts(arg)
            THEN /\ instance' = instance + 1
                 /\ config' = ConfigSchemaParse(arg)
                 /\ lastCall' = Called("getImageSyncService", arg, "none")
                 /\ isRunning' = FALSE /\ intervalId' = FALSE /\ abortController' = FALSE
                 /\ timers' = 0 /\ stopWaiters' = 0
                 /\ downloadQueue' = << >> /\ activeDownloads' = 0
                 /\ inflight' = [i \in Ids |-> 0]
                 /\ retryMap' = [i \in Ids |-> 0]
                 /\ pendingRetries' = [i \in Ids |-> 0]
                 /\ cycles' = [c \in Slots |-> IdleCycle]
            ELSE /\ lastCall' = Called("getImageSyncService", arg, InvalidConfigurationError)
                 /\ UNCHANGED << instance, config, engineVars, queueVars, retryMap,
                                 pendingRetries, cycles >>
       ELSE /\ lastCall' = Called("getImageSyncService", arg,
                                  IF instance = 0 THEN NotInitializedError ELSE "none")
            /\ UNCHANGED << instance, config, engineVars, queueVars, retryMap,
                            pendingRetries, cycles >>
getImageSyncService(arg) ==
    /\ UNCHANGED << files, lastDownload, manifest, fetchResult, lastCycle,
                    enqueuedUnder, engineVars, queueVars, ledgerVars, cycles,
                    lastSync, now, source >>
    /\ IF instance = 0 /\ arg # NoConfig
       THEN IF SchemaAccepts(arg)
            THEN /\ instance' = instance + 1
                 /\ config' = ConfigSchemaParse(arg)
                 /\ lastCall' = Called("getImageSyncService", arg, "none")
            ELSE /\ lastCall' = Called("getImageSyncService", arg, InvalidConfigurationError)
                 /\ UNCHANGED << instance, config >>
       ELSE IF instance = 0
            THEN /\ lastCall' = Called("getImageSyncService", arg, NotInitializedError)
                 /\ UNCHANGED << instance, config >>
            ELSE /\ lastCall' = Called("getImageSyncService", arg, "none")
                 /\ UNCHANGED << instance, config >>

\* No instance yet: the module's `instance` is null and no engine exists.
InitSingleton ==
    /\ instance = 0
    /\ config = NoConfig
    /\ manifest = << >>
    /\ fetchResult = NoImages
    /\ InitEngine

\* getImageSyncService called in any state; the methods of the instance
\* are called once there is one.  The source publishes one image.
NextSingleton ==
    \/ \E arg \in SingletonArgs : getImageSyncService(arg)
    \/ Publish(1)
    \/ instance # 0 /\ Start
    \/ instance # 0 /\ TimerTick
    \/ instance # 0 /\ \E c \in Slots, user \in BOOLEAN : SyncBegin(c, user)
    \/ instance # 0 /\ \E c \in Slots : SyncFetchFailed(c)
    \/ instance # 0 /\ \E c \in Slots : SyncFetchAborted(c)
    \/ instance # 0 /\ \E c \in Slots : SyncFetched(c)
    \/ instance # 0 /\ \E i \in Ids, outcome \in Outcomes : DownloadSettled(i, outcome)
    \/ instance # 0 /\ \E i \in Ids : RetryFire(i)
    \/ instance # 0 /\ Stop
    \/ instance # 0 /\ StopPoll

SpecSingleton == InitSingleton /\ [][NextSingleton]_vars

\* C22: a getImageSyncService call made while there is no instance and
\* without a configuration ends with an error and creates nothing; a call
\* made while there is an instance returns that instance, with or without
\* a configuration, and leaves its configuration, its retry ledger and
\* activeDownloads unchanged; and there is never a second instance.
C22_SingleInstance ==
    [][/\ (lastCall' # lastCall /\ lastCall'.op = "getImageSyncService")
          => /\ (instance = 0 /\ lastCall'.arg = NoConfig)
                => lastCall'.error = NotInitializedError /\ instance' = 0
             /\ instance # 0
                => /\ lastCall'.error = "none"
                   /\ instance' = instance
                   /\ UNCHANGED << config, retryMap, activeDownloads >>
       /\ instance' \in {0, 1}]_vars

\* getImageSyncService was called with a configuration on an instance whose
\* configuration is another one and which has a download in flight and a
\* ledger entry.
C22_Witness ==
    /\ instance = 1
    /\ lastCall.op = "getImageSyncService"
    /\ lastCall.arg = [sourceEndpoint |-> EndpointUrl]
    /\ config.maxConcurrentDownloads = MinConcurrentDownloads
    /\ activeDownloads > 0
    /\ retryMap[1] > 0


(***************************************************************************)
(* syncImages, with the way each invocation ends recorded in lastCycle:    *)
(* cause is what the invocation met ("noUser", "failed", "aborted",        *)
(* "answered"), outcome is "returned" when the promise of syncImages()     *)
(* resolves and "threw" when it rejects.                                   *)
(***************************************************************************)
Ended(cause, outcome) == [cause |-> cause, outcome |-> outcome]

\* What the recording actions of syncImages leave alone besides lastCycle.
cycleFrame == << config, files, lastCall, lastDownload, manifest, fetchResult,
                 instance, enqueuedUnder >>

\* The step in which invocation c of syncImages ends.
Returns(c) == cycles[c].pc # "idle" /\ cycles'[c].pc = "idle"

\* syncImages up to the manifest request: `if (!user) return`, else the
\* watermark is read and fetch is issued.
syncImagesBegin(c, user) ==
    /\ cycles[c].pc = "begin"
    /\ IF user
       THEN /\ cycles' = [cycles EXCEPT ![c].pc = "fetch",
                                        ![c].since = lastSync,
                                        ![c].sig = IF abortController THEN "live" ELSE "none"]
            /\ UNCHANGED << timers, intervalId, lastCycle >>
       ELSE /\ cycles' = CyclesAfterReturn(c)
            /\ timers' = TimersAfterReturn(c)
            /\ intervalId' = IntervalIdAfterReturn(c)
            /\ lastCycle' = Ended("noUser", "returned")
    /\ UNCHANGED << cycleFrame, isRunning, abortController, stopWaiters, queueVars,
                    ledgerVars, lastSync, now, source >>

syncImagesFetchFailedStops(c) ==
    /\ cycles[c].pc = "fetch"
    /\ cycles[c].sig # "aborted"
    /\ cycles' = CyclesAfterReturn(c)
    /\ isRunning' = FALSE
    /\ lastCycle' = Ended("failed", "threw")
    /\ UNCHANGED << cycleFrame, timers, intervalId, abortController, stopWaiters,
                    queueVars, ledgerVars, lastSync, now, source >>
\* The manifest request fails: fetchNewImages rethrows, the catch of
\* syncImages logs and rethrows.
syncImagesFetchFailed(c) ==
    /\ cycles[c].pc = "fetch"
    /\ cycles[c].sig # "aborted"
    /\ cycles' = CyclesAfterReturn(c)
    /\ timers' = TimersAfterReturn(c)
    /\ intervalId' = IntervalIdAfterReturn(c)
    /\ lastCycle' = Ended("failed", "threw")
    /\ UNCHANGED << cycleFrame, isRunning, abortController, stopWaiters, queueVars,
                    ledgerVars, lastSync, now, source >>

syncImagesFetchAbortedRethrown(c) ==
    /\ cycles[c].pc = "fetch"
    /\ cycles[c].sig = "aborted"
    /\ cycles' = CyclesAfterReturn(c)
    /\ timers' = TimersAfterReturn(c)
    /\ intervalId' = IntervalIdAfterReturn(c)
    /\ lastCycle' = Ended("aborted", "threw")
    /\ UNCHANGED << cycleFrame, isRunning, abortController, stopWaiters, queueVars,
                    ledgerVars, lastSync, now, source >>
\* The manifest request was aborted: the catch of fetchNewImages returns []
\* on AbortError and syncImages returns on newImages.length === 0.
syncImagesFetchAborted(c) ==
    /\ cycles[c].pc = "fetch"
    /\ cycles[c].sig = "aborted"
    /\ cycles' = CyclesAfterReturn(c)
    /\ timers' = TimersAfterReturn(c)
    /\ intervalId' = IntervalIdAfterReturn(c)
    /\ lastCycle' = Ended("aborted", "returned")
    /\ UNCHANGED << cycleFrame, isRunning, abortController, stopWaiters, queueVars,
                    ledgerVars, lastSync, now, source >>

syncImagesFetchedNoEarlyReturn(c) ==
    /\ cycles[c].pc = "fetch"
    /\ cycles[c].sig # "aborted"
    /\ LET newImages == fetchNewImages(cycles[c].since)
           pushed == downloadQueue \o newImages
           r == processDownloadQueue(pushed, activeDownloads, inflight)
       IN /\ Len(pushed) <= MaxQueue
          /\ now <= MaxClock
          /\ downloadQueue' = r.queue
          /\ activeDownloads' = r.active
          /\ inflight' = r.inflight
          /\ lastSync' = WatermarkValue(newImages)
          /\ now' = now + 1
    /\ cycles' = CyclesAfterReturn(c)
    /\ timers' = TimersAfterReturn(c)
    /\ intervalId' = IntervalIdAfterReturn(c)
    /\ lastCycle' = Ended("answered", "returned")
    /\ UNCHANGED << cycleFrame, isRunning, abortController, stopWaiters, ledgerVars,
                    source >>
\* The manifest request is answered: with no new image syncImages returns;
\* otherwise it pushes the images, runs processDownloadQueue and stores the
\* watermark.
syncImagesFetched(c) ==
    /\ cycles[c].pc = "fetch"
    /\ cycles[c].sig # "aborted"
    /\ LET newImages == fetchNewImages(cycles[c].since)
           pushed == downloadQueue \o newImages
           r == processDownloadQueue(pushed, activeDownloads, inflight)
       IN IF newImages = << >>
          THEN UNCHANGED << queueVars, lastSync, now >>
          ELSE /\ Len(pushed) <= MaxQueue
               /\ now <= MaxClock
               /\ downloadQueue' = r.queue
               /\ activeDownloads' = r.active
               /\ inflight' = r.inflight
               /\ lastSync' = WatermarkValue(newImages)
               /\ now' = now + 1
    /\ cycles' = CyclesAfterReturn(c)
    /\ timers' = TimersAfterReturn(c)
    /\ intervalId' = IntervalIdAfterReturn(c)
    /\ lastCycle' = Ended("answered", "returned")
    /\ UNCHANGED << cycleFrame, isRunning, abortController, stopWaiters, ledgerVars,
                    source >>

NextCycle ==
    \/ Publish(1)
    \/ Start
    \/ TimerTick
    \/ ForceSyncNow
    \/ \E c \in Slots, user \in BOOLEAN : syncImagesBegin(c, user)
    \/ \E c \in Slots : syncImagesFetchFailed(c)
    \/ \E c \in Slots : syncImagesFetchAborted(c)
    \/ \E c \in Slots : syncImagesFetched(c)
    \/ \E i \in Ids, outcome \in Outcomes : DownloadSettled(i, outcome)
    \/ \E i \in Ids : RetryFire(i)
    \/ Stop
    \/ StopPoll

SpecCycle == Init /\ [][NextCycle]_vars

C27_AbortedFetchIsNonFatal ==
    [][\A c \in Slots :
         (Returns(c) /\ cycles[c].pc = "fetch" /\ cycles[c].sig = "aborted")
         => /\ lastCycle' = Ended("aborted", "returned")
            /\ UNCHANGED << lastSync, downloadQueue, activeDownloads, inflight >>]_vars

\* An aborted invocation has ended although the source held an image newer
\* than the watermark.
C27_Witness ==
    /\ lastCycle = Ended("aborted", "returned")
    /\ ~isRunning
    /\ \E i \in Ids : source[i] > lastSync
    /\ downloadQueue = << >>

\* C28: an invocation that ends for want of a user or because its manifest
\* request failed leaves isRunning, the watermark and the armed timer as
\* they were (a timer the initial invocation of start() was holding back is
\* armed), and every invocation reads the watermark of the moment it
\* begins, so the next tick starts from the same watermark.
C28_FailedCycleKeepsEngineRunning ==
    [][\A c \in Slots :
         /\ (Returns(c) /\ lastCycle'.cause \in {"noUser", "failed"}
                        /\ (cycles[c].pc = "begin" \/ lastCycle'.cause = "failed"))
            => /\ isRunning' = isRunning
               /\ lastSync' = lastSync
               /\ timers' >= timers
               /\ intervalId => intervalId'
               /\ (isRunning /\ cycles[c].kind = "start") => (intervalId' /\ timers' > 0)
         /\ (cycles[c].pc = "begin" /\ cycles'[c].pc = "fetch")
            => cycles'[c].since = lastSync]_vars

\* After a failed manifest request the engine is running with its timer
\* armed, and a tick has started an invocation from the watermark the
\* failed one had used.
C28_Witness ==
    /\ lastCycle = Ended("failed", "threw")
    /\ isRunning /\ intervalId /\ timers = 1
    /\ lastSync > 0
    /\ \E c \in Slots : /\ cycles[c].kind = "tick"
                        /\ cycles[c].pc = "fetch"
                        /\ cycles[c].since = lastSync

(***************************************************************************)
(* The failure of one download and the other downloads                     *)
(***************************************************************************)
\* A step in which a download settles as a failure: the queue or the
\* downloads in flight change, though no syncImages invocation pushes
\* images, no retry timer fires and no image is stored.
FailureStep ==
    /\ queueVars' # queueVars
    /\ cycles' = cycles
    /\ \A i \in Ids : pendingRetries'[i] >= pendingRetries[i]
    /\ synced' = synced

\* C24: the failure of one download leaves every other image where it was
\* or starts it (none is dropped from the queue or from the downloads in
\* flight), dispatch goes on until the queue is empty or the cap is
\* reached, and the failure settles no syncImages invocation and leaves
\* isRunning, the timer and the watermark alone: nothing reaches the caller
\* of start() or forceSyncNow().
C24_FailureDoesNotAbortCycle ==
    [][FailureStep =>
         /\ \E i \in Ids :
              /\ Occ(i)' = Occ(i) - 1
              /\ \A j \in Ids \ {i} : Occ(j)' = Occ(j) /\ inflight'[j] >= inflight[j]
         /\ ~CanDispatch(downloadQueue', activeDownloads')
         /\ UNCHANGED << cycles, isRunning, intervalId, timers, lastSync >>]_vars

\* With a cap of one, both images came with the one manifest that stored a
\* watermark; image 1 failed and waits for its retry, image 2 was
\* started after that failure and is stored.
C24_Witness ==
    /\ config.maxConcurrentDownloads = 1
    /\ source = << 1, 2 >>
    /\ lastSync = 3
    /\ retryMap[1] = 1 /\ pendingRetries[1] = 1 /\ 1 \notin synced
    /\ 2 \in synced

(***************************************************************************)
(* stop() and the images waiting in the queue                              *)
(***************************************************************************)
\* C26: while a stop() that has aborted the controller waits in
\* waitForActiveDownloads, no download is started: the downloads in flight
\* of no image grow.
C26_NoDispatchWhileStopping ==
    [][stopWaiters > 0 => \A i \in Ids : inflight'[i] <= inflight[i]]_vars

(***************************************************************************)
(* The order in which downloads are started                                *)
(***************************************************************************)
\* An engine constructed with a retry budget of one when the source already
\* holds every image, all captured at time 1.
InitOrder ==
    /\ instance = 1
    /\ config \in {cfg \in EngineConfigs : cfg.retryAttempts = 1}
    /\ manifest = << >>
    /\ fetchResult = NoImages
    /\ isRunning = FALSE
    /\ intervalId = FALSE
    /\ abortController = FALSE
    /\ downloadQueue = << >>
    /\ activeDownloads = 0
    /\ retryMap = [i \in Ids |-> 0]
    /\ timers = 0
    /\ stopWaiters = 0
    /\ cycles = [c \in Slots |-> IdleCycle]
    /\ inflight = [i \in Ids |-> 0]
    /\ pendingRetries = [i \in Ids |-> 0]
    /\ lastSync = 0
    /\ now = 2
    /\ source = [i \in Ids |-> 1]
    /\ synced = {}
    /\ abandoned = {}
    /\ files = {}
    /\ lastCall = NoCall
    /\ lastDownload = NoDownload
    /\ lastCycle = NoCycle
    /\ enqueuedUnder = NoCapture

NextOrder ==
    \/ Start
    \/ TimerTick
    \/ ForceSyncNow
    \/ \E c \in Slots, user \in BOOLEAN : SyncBegin(c, user)
    \/ \E c \in Slots : SyncFetchFailed(c)
    \/ \E c \in Slots : SyncFetchAborted(c)
    \/ \E c \in Slots : SyncFetched(c)
    \/ \E i \in Ids, outcome \in Outcomes : DownloadSettled(i, outcome)
    \/ \E i \in Ids : RetryFire(i)
    \/ Stop
    \/ StopPoll

SpecOrder == InitOrder /\ [][NextOrder]_vars

\* What one step can append to the download queue: nothing, the image of a
\* retry timer, or a manifest.
Appended ==
    {<< >>} \cup {<< i >> : i \in Ids} \cup {fetchNewImages(w) : w \in 0..(MaxClock + 1)}

\* The step appends tail to the queue and starts exactly the first k images
\* of the result, in that order; at most one download settles.
StartsFromFront(tail, k) ==
    LET q == downloadQueue \o tail
    IN /\ downloadQueue' = SubSeq(q, k + 1, Len(q))
       /\ \E s \in Ids \cup {0} :
            \A i \in Ids :
              inflight'[i] = inflight[i] - (IF i = s THEN 1 ELSE 0)
                                         + CountIn(SubSeq(q, 1, k), i)

\* C30: every step appends behind the images already waiting - a retry
\* timer its image, a syncImages invocation its manifest in manifest
\* order - and starts downloads only from the front of the queue, in queue
\* order.
C30_StartedInQueueOrder ==
    [][\E tail \in Appended :
         /\ \A i \in Ids : pendingRetries'[i] < pendingRetries[i] => tail = << i >>
         /\ \A c \in Slots :
              (cycles[c].pc = "fetch" /\ cycles'[c].pc = "idle" /\ lastSync' # lastSync)
              => tail = fetchNewImages(cycles[c].since)
         /\ \E k \in 0..(Len(downloadQueue) + Len(tail)) : StartsFromFront(tail, k)]_vars

\* With a cap of one, image 1 was started first and has failed; its retry
\* has put it behind image 2, which was already waiting.
C30_Witness ==
    /\ config.maxConcurrentDownloads = 1
    /\ activeDownloads = 1
    /\ Len(downloadQueue) >= 2
    /\ downloadQueue[1] = 2
    /\ downloadQueue[Len(downloadQueue)] = 1
    /\ retryMap[1] > 0
    /\ pendingRetries[1] = 0

(***************************************************************************)
(* Reconfiguration while images are queued or in flight.  The actions that *)
(* make a syncImages invocation record the configuration of that moment in *)
(* enqueuedUnder.cycle, and the push records it for the pushed images in   *)
(* enqueuedUnder.image.                                                    *)
(***************************************************************************)
\* What the recording actions leave alone besides enqueuedUnder.
captureFrame == << config, files, lastCall, lastDownload, manifest, fetchResult,
                   instance, lastCycle >>

CapturedAt(c) == [enqueuedUnder EXCEPT !.cycle[c] = config]

\* start() on a stopped engine, up to its await of the immediate syncImages().
startFromStopped ==
    /\ ~isRunning
    /\ FreeSlots # {}
    /\ timers + StartsInProgress < MaxTimers
    /\ isRunning' = TRUE
    /\ abortController' = TRUE
    /\ cycles' = [cycles EXCEPT ![NewSlot] = [IdleCycle EXCEPT !.pc = "begin", !.kind = "start"]]
    /\ enqueuedUnder' = CapturedAt(NewSlot)
    /\ UNCHANGED << captureFrame, intervalId, timers, stopWaiters, queueVars, ledgerVars,
                    lastSync, now, source >>

\* The push of syncImages, as in SyncFetched, recorded for the pushed images.
syncImagesPush(c) ==
    /\ cycles[c].pc = "fetch"
    /\ cycles[c].sig # "aborted"
    /\ LET newImages == fetchNewImages(cycles[c].since)
           pushed == downloadQueue \o newImages
           r == processDownloadQueue(pushed, activeDownloads, inflight)
       IN /\ IF newImages = << >>
             THEN UNCHANGED << queueVars, lastSync, now >>
             ELSE /\ Len(pushed) <= MaxQueue
                  /\ now <= MaxClock
                  /\ downloadQueue' = r.queue
                  /\ activeDownloads' = r.active
                  /\ inflight' = r.inflight
                  /\ lastSync' = WatermarkValue(newImages)
                  /\ now' = now + 1
          /\ enqueuedUnder' =
               [enqueuedUnder EXCEPT !.image =
                  [i \in Ids |-> IF CountIn(newImages, i) > 0
                                 THEN @[i] \cup {enqueuedUnder.cycle[c]}
                                 ELSE @[i]]]
    /\ cycles' = CyclesAfterReturn(c)
    /\ timers' = TimersAfterReturn(c)
    /\ intervalId' = IntervalIdAfterReturn(c)
    /\ UNCHANGED << captureFrame, isRunning, abortController, stopWaiters, ledgerVars,
                    source >>

\* updateConfig calls that change a setting of the download path.
ReconfigPartials == {[retryAttempts |-> MaxRetry], [maxConcurrentDownloads |-> MaxCap]}

\* An engine constructed with the smallest retry budget and cap.
InitReconfig ==
    /\ instance = 1
    /\ config = ConfigSchemaParse([sourceEndpoint |-> EndpointUrl,
                                   maxConcurrentDownloads |-> MinConcurrentDownloads,
                                   retryAttempts |-> MinRetryAttempts])
    /\ manifest = << >>
    /\ fetchResult = NoImages
    /\ InitEngine

NextReconfig ==
    \/ Publish(1)
    \/ startFromStopped
    \/ \E partial \in ReconfigPartials : updateConfig(partial)
    \/ \E c \in Slots, user \in BOOLEAN : SyncBegin(c, user)
    \/ \E c \in Slots : SyncFetchFailed(c)
    \/ \E c \in Slots : SyncFetchAborted(c)
    \/ \E c \in Slots : syncImagesPush(c)
    \/ \E i \in Ids, outcome \in Outcomes : DownloadSettled(i, outcome)
    \/ \E i \in Ids : RetryFire(i)
    \/ StopPoll

SpecReconfig == InitReconfig /\ [][NextReconfig]_vars

\* C25: the retry decision taken when a download of image i fails is the
\* one the configuration captured at the start of a cycle that pushed i
\* gives, and a download of i is started only within the concurrency cap of
\* such a configuration.
C25_CycleUsesCapturedConfig ==
    [][\A i \in Ids :
         /\ (FailureStep /\ Occ(i)' = Occ(i) - 1)
            => \E cfg \in enqueuedUnder.image[i] :
                 (pendingRetries'[i] > pendingRetries[i]) <=> (retryMap[i] < cfg.retryAttempts)
         /\ inflight'[i] > inflight[i]
            => \E cfg \in enqueuedUnder'.image[i] :
                 activeDownloads' <= cfg.maxConcurrentDownloads]_vars

(***************************************************************************)
(* The background task of registerBackgroundImageSync                      *)
(* (src/src/services/supportService.ts): each firing calls                 *)
(* getImageSyncService(config) and awaits forceSyncNow() of the instance.  *)
(***************************************************************************)
\* The configurations registerBackgroundImageSync is called with.
TaskArgs == SingletonArgs \ {NoConfig}

\* What the task returns when its try block ends with the given error.
BackgroundFetchResult(err) == IF err = "none" THEN "NewData" ELSE "Failed"

\* The record of a firing that ended at once with err, or that awaits
\* syncImages (result "pending").
Fired(arg, err, result) ==
    [op |-> "backgroundTask", arg |-> arg, error |-> err, wasRunning |-> isRunning,
     n |-> 1 - lastCall.n, result |-> result]

backgroundTaskUnchecked(arg) ==
    /\ UNCHANGED << files, lastDownload, manifest, fetchResult, lastCycle,
                    enqueuedUnder, engineVars, queueVars, ledgerVars, lastSync, now,
                    source >>
    /\ IF instance = 0 /\ ~SchemaAccepts(arg)
       THEN /\ lastCall' = Fired(arg, InvalidConfigurationError,
                                 BackgroundFetchResult(InvalidConfigurationError))
            /\ UNCHANGED << instance, config, cycles >>
       ELSE /\ instance' = 1
            /\ config' = IF instance = 0 THEN ConfigSchemaParse(arg) ELSE config
            /\ FreeSlots # {}
            /\ lastCall' = Fired(arg, "none", "pending")
            /\ cycles' = CyclesWithNew("task")
\* A firing of the task, up to its first await or its return: the
\* constructor may throw, forceSyncNow throws on a stopped engine, and
\* otherwise syncImages() is called and awaited.
backgroundTask(arg) ==
    /\ UNCHANGED << files, lastDownload, manifest, fetchResult, lastCycle,
                    enqueuedUnder, engineVars, queueVars, ledgerVars, lastSync, now,
                    source >>
    /\ IF instance = 0 /\ ~SchemaAccepts(arg)
       THEN /\ lastCall' = Fired(arg, InvalidConfigurationError,
                                 BackgroundFetchResult(InvalidConfigurationError))
            /\ UNCHANGED << instance, config, cycles >>
       ELSE /\ instance' = 1
            /\ config' = IF instance = 0 THEN ConfigSchemaParse(arg) ELSE config
            /\ IF ~isRunning
               THEN /\ lastCall' = Fired(arg, NotRunningError,
                                         BackgroundFetchResult(NotRunningError))
                    /\ UNCHANGED cycles
               ELSE /\ FreeSlots # {}
                    /\ lastCall' = Fired(arg, "none", "pending")
                    /\ cycles' = CyclesWithNew("task")

\* The task firing in any state, from before the first instance on; the
\* methods of the instance are called once there is one.
NextTask ==
    \/ \E arg \in TaskArgs : backgroundTask(arg)
    \/ Publish(1)
    \/ instance # 0 /\ Start
    \/ instance # 0 /\ TimerTick
    \/ instance # 0 /\ \E c \in Slots, user \in BOOLEAN : SyncBegin(c, user)
    \/ instance # 0 /\ \E c \in Slots : SyncFetchFailed(c)
    \/ instance # 0 /\ \E c \in Slots : SyncFetchAborted(c)
    \/ instance # 0 /\ \E c \in Slots : SyncFetched(c)
    \/ instance # 0 /\ \E i \in Ids, outcome \in Outcomes : DownloadSettled(i, outcome)
    \/ instance # 0 /\ \E i \in Ids : RetryFire(i)
    \/ instance # 0 /\ Stop
    \/ instance # 0 /\ StopPoll

SpecTask == InitSingleton /\ [][NextTask]_vars

\* C31: a firing of the background task makes exactly one syncImages
\* invocation when the engine is running and none otherwise; on a stopped
\* engine (or before any engine exists) it returns Failed and leaves the
\* invocations, isRunning, the timer, the queue, the downloads in flight,
\* the ledger and the watermark as they were; and it never replaces the
\* instance or the configuration of an existing one.
C31_TaskRunsCycleOnlyWhenRunning ==
    [][(lastCall' # lastCall /\ lastCall'.op = "backgroundTask")
       => /\ isRunning => /\ cycles' = CyclesWithNew("task")
                          /\ lastCall'.error = "none"
          /\ ~isRunning => /\ lastCall'.result = "Failed"
                           /\ UNCHANGED << cycles, engineVars, queueVars, ledgerVars,
                                           lastSync >>
          /\ instance # 0 => UNCHANGED << instance, config >>]_vars

\* The task has fired on an engine that was running earlier (a watermark
\* is stored) and is stopped, with a retry timer still pending, and has
\* returned Failed.
C31_Witness ==
    /\ lastCall.op = "backgroundTask"
    /\ lastCall.error = NotRunningError
    /\ lastCall.result = "Failed"
    /\ ~isRunning
    /\ lastSync > 0
    /\ \E i \in Ids : pendingRetries[i] > 0

(***************************************************************************)
(* The stopped engine                                                      *)
(***************************************************************************)
\* C32: while the engine is stopped no download is in flight.
C32_StoppedHasNoActiveDownloads == ~isRunning => activeDownloads = 0

\* C33: at most one repeating timer is armed, and none while the engine is
\* stopped.
C33_AtMostOneTimer == timers <= 1 /\ (~isRunning => timers = 0)

(***************************************************************************)
(* Overlapping syncImages invocations                                      *)
(***************************************************************************)
\* C34: no two syncImages invocations are at the same time between reading
\* the watermark and writing it, having read the same watermark.
C34_NoOverlappingCycles ==
    \A c, d \in Slots :
      (c # d /\ cycles[c].pc = "fetch" /\ cycles[d].pc = "fetch")
      => cycles[c].since # cycles[d].since

(***************************************************************************)
(* The concurrency cap under reconfiguration                               *)
(***************************************************************************)
\* updateConfig calls that set the cap.
CapPartials ==
    {[maxConcurrentDownloads |-> m] : m \in MinConcurrentDownloads..MaxCap}

\* An engine constructed with the largest cap and the smallest retry budget.
InitCap ==
    /\ instance = 1
    /\ config = ConfigSchemaParse([sourceEndpoint |-> EndpointUrl,
                                   maxConcurrentDownloads |-> MaxCap,
                                   retryAttempts |-> MinRetryAttempts])
    /\ manifest = << >>
    /\ fetchResult = NoImages
    /\ InitEngine

NextCap ==
    \/ \E i \in Ids : Publish(i)
    \/ Start
    \/ \E partial \in CapPartials : updateConfig(partial)
    \/ \E c \in Slots, user \in BOOLEAN : SyncBegin(c, user)
    \/ \E c \in Slots : SyncFetchFailed(c)
    \/ \E c \in Slots : SyncFetchAborted(c)
    \/ \E c \in Slots : SyncFetched(c)
    \/ \E i \in Ids, outcome \in Outcomes : DownloadSettled(i, outcome)
    \/ \E i \in Ids : RetryFire(i)
    \/ StopPoll

SpecCap == InitCap /\ [][NextCap]_vars

\* C37: activeDownloads never exceeds maxConcurrentDownloads of the
\* configuration in effect, whatever updateConfig has changed.
C37_CapAcrossReconfiguration == activeDownloads <= config.maxConcurrentDownloads

(***************************************************************************)
(* start() called while stop() waits                                       *)
(***************************************************************************)
\* The engine with start() and stop() called in any state, both recorded
\* in lastCall, and a source that publishes one image.
NextStartStop ==
    \/ Publish(1)
    \/ start
    \/ stop
    \/ TimerTick
    \/ \E c \in Slots, user \in BOOLEAN : SyncBegin(c, user)
    \/ \E c \in Slots : SyncFetchFailed(c)
    \/ \E c \in Slots : SyncFetchAborted(c)
    \/ \E c \in Slots : SyncFetched(c)
    \/ \E i \in Ids, outcome \in Outcomes : DownloadSettled(i, outcome)
    \/ \E i \in Ids : RetryFire(i)
    \/ StopPoll

SpecStartStop == Init /\ [][NextStartStop]_vars

\* C38: when the latest call is a start() made while a stop() was waiting
\* in waitForActiveDownloads, the step that completes that stop() leaves
\* the engine running with a repeating timer armed.
C38_StartDuringStopNotLost ==
    [][(/\ stopWaiters > 0
        /\ stopWaiters' < stopWaiters
        /\ lastCall.op = "start")
       => (isRunning' /\ timers' > 0)]_vars

(***************************************************************************)
(* Progress.  The engine of Spec with a source that publishes one image,   *)
(* under the assumptions that a download in flight eventually settles      *)
(* (either way), that a timer set with setTimeout eventually fires - the   *)
(* 500 ms poll of waitForActiveDownloads, the retry timer - and nothing    *)
(* else: the source, the callers of start, stop and forceSyncNow, the      *)
(* repeating timer and the answers awaited by syncImages may stay away.    *)
(***************************************************************************)
NextLive ==
    \/ Publish(1)
    \/ Start
    \/ TimerTick
    \/ ForceSyncNow
    \/ \E c \in Slots, user \in BOOLEAN : SyncBegin(c, user)
    \/ \E c \in Slots : SyncFetchFailed(c)
    \/ \E c \in Slots : SyncFetchAborted(c)
    \/ \E c \in Slots : SyncFetched(c)
    \/ \E i \in Ids, outcome \in Outcomes : DownloadSettled(i, outcome)
    \/ \E i \in Ids : RetryFire(i)
    \/ Stop
    \/ StopPoll

\* Every download attempt eventually completes.
DownloadsComplete == \A i \in Ids : WF_vars(\E outcome \in Outcomes : DownloadSettled(i, outcome))
\* Every retry timer eventually fires.
RetryTimersFire == \A i \in Ids : WF_vars(RetryFire(i))
\* The poll of waitForActiveDownloads re-arms itself every 500 ms.
PollsFire == WF_vars(StopPoll)

SpecStopLive == Init /\ [][NextLive]_vars /\ DownloadsComplete /\ PollsFire

SpecDrainLive == Init /\ [][NextLive]_vars /\ DownloadsComplete /\ RetryTimersFire /\ PollsFire

\* C36: a stop() that waits in waitForActiveDownloads eventually completes,
\* and the engine is then stopped.
C36_StopEventuallyCompletes == (stopWaiters > 0) ~> (stopWaiters = 0 /\ ~isRunning)

\* A stop() is waiting while an image is in flight, another occurrence of
\* it is queued, and a forced invocation of syncImages is under way.
C36_Witness ==
    /\ stopWaiters > 0
    /\ activeDownloads > 0
    /\ downloadQueue # << >>
    /\ \E c \in Slots : cycles[c].kind = "force" /\ cycles[c].pc # "idle"

\* C35: an image that waits in the queue, is in flight or waits for its
\* retry timer is eventually stored or abandoned, with no occurrence of it
\* left; no image waits in the queue while the cap is not reached; and the
\* queue is empty again and again.
C35_EveryItemReachesOutcome ==
    /\ \A i \in Ids :
         (Occ(i) > 0 \/ pendingRetries[i] > 0)
         ~> (Occ(i) = 0 /\ pendingRetries[i] = 0 /\ (i \in synced \/ i \in abandoned))
    /\ [](~CanDispatch(downloadQueue, activeDownloads))
    /\ []<>(downloadQueue = << >>)

\* An image has been abandoned after its retries, and no occurrence and
\* no retry timer of it is left.
C35_Witness ==
    /\ 1 \in abandoned
    /\ Occ(1) = 0 /\ pendingRetries[1] = 0
    /\ retryMap[1] > 0

====
